---------------------------- MODULE Spec2Model ----------------------------
(***************************************************************************)
(* SubSearch ingestion pipeline (main.ipynb): chunking of text files,      *)
(* duplicate detection against the vector store, keyword enrichment and    *)
(* the upsert protocol of process_files_and_save_to_qdrant.                *)
(*                                                                         *)
(* A text is a sequence of one-character strings.  A point of the store is *)
(* a record [vector, payload]; the store's collection is the function     *)
(* `points` from point identifiers to points.                              *)
(***************************************************************************)
EXTENDS Integers, Sequences, FiniteSets, TLC

(***************************************************************************)
(* Bounds of the model.                                                    *)
(***************************************************************************)
\* longest text (in characters) given to get_text_chunks in SpecChunk
MaxTextLen == 5
\* largest chunk_size given to get_text_chunks in SpecChunk
MaxChunkSize == 3
\* number of words of the short and of the long document of the folder
WordsShort == 50
WordsLong == 250
\* number of runs of process_files_and_save_to_qdrant
MaxRuns == 2
\* number of disturbances over all the runs: collaborator failures, kills,
\* changes of the folder, runs with a model of the wrong vector size
MaxFaults == 1

\* calls of initialize_qdrant when it is called on its own
MaxCalls == 3

(***************************************************************************)
(* Program constants.                                                      *)
(***************************************************************************)
\* get_text_chunks(text, chunk_size=100)
DefaultChunkSize == 100
\* VectorParams(size=384, ...)
VectorSize == 384
\* client.scroll(..., limit=1)
ScrollLimit == 1

(***************************************************************************)
(* Python helpers used by get_text_chunks.                                 *)
(***************************************************************************)
Min(a, b) == IF a < b THEN a ELSE b

\* str.split() separates on runs of whitespace
IsSpace(c) == c \in {" ", "\n", "\t"}

\* the positions where a word starts: a non-space at the start of the text
\* or after a space
WordStarts(text) ==
    {i \in 1..Len(text) : ~IsSpace(text[i]) /\ (i = 1 \/ IsSpace(text[i - 1]))}

\* the last position of the word that starts at i
WordEnd(text, i) ==
    CHOOSE j \in i..Len(text) :
        /\ \A k \in i..j : ~IsSpace(text[k])
        /\ (j = Len(text) \/ IsSpace(text[j + 1]))

\* text.split(): the maximal runs of non-space characters, in order
Split(text) ==
    LET starts == WordStarts(text)
        nth(k) == CHOOSE i \in starts : Cardinality({j \in starts : j < i}) = k - 1
    IN  [k \in 1..Cardinality(starts) |-> SubSeq(text, nth(k), WordEnd(text, nth(k)))]

\* sep.join(parts)
RECURSIVE Join(_, _)
Join(sep, parts) ==
    IF parts = <<>> THEN <<>>
    ELSE IF Len(parts) = 1 THEN parts[1]
    ELSE parts[1] \o sep \o Join(sep, Tail(parts))

\* list(range(0, stop, step)) for step > 0
Range0(stop, step) == [k \in 1..((stop + step - 1) \div step) |-> (k - 1) * step]

\* s[lo:hi] for 0 <= lo <= hi (Python slices clamp hi to len(s))
Slice(s, lo, hi) == SubSeq(s, lo + 1, Min(hi, Len(s)))

\* a mutant of get_text_chunks: the window is one word short
get_text_chunks_short(text, chunk_size) ==
    LET words == Split(text)
        starts == Range0(Len(words), chunk_size)
    IN  [k \in 1..Len(starts) |->
            Join(<<" ">>, Slice(words, starts[k], starts[k] + chunk_size - 1))]

\* a mutant of get_text_chunks: an empty text gives one empty chunk
get_text_chunks_empty(text, chunk_size) ==
    LET words == Split(text)
        starts == Range0(Len(words), chunk_size)
    IN  IF words = <<>> THEN << <<>> >>
        ELSE [k \in 1..Len(starts) |->
                Join(<<" ">>, Slice(words, starts[k], starts[k] + chunk_size))]

\* get_text_chunks(text, chunk_size)
get_text_chunks(text, chunk_size) ==
    LET words == Split(text)
        starts == Range0(Len(words), chunk_size)
    IN  [k \in 1..Len(starts) |->
            Join(<<" ">>, Slice(words, starts[k], starts[k] + chunk_size))]

(***************************************************************************)
(* The folder, the documents and the collaborators.                        *)
(***************************************************************************)
\* the names glob('*.txt') can match in the folder
FileNames == {"a.txt", "b.txt"}

\* what a name of the folder is: nothing, a directory, or a file with a text
TextKinds == {"short", "long"}
EntryKinds == {"absent", "dir"} \cup TextKinds

\* the i-th word of a document, and the whitespace that follows it
Letter(i) == IF i % 3 = 0 THEN "a" ELSE IF i % 3 = 1 THEN "b" ELSE "c"
Blank(i) == IF i % 2 = 0 THEN " " ELSE "\n"

\* a document of w one-letter words, each followed by a blank or a newline
Doc(w) ==
    [j \in 1..(2 * w) |-> IF j % 2 = 1 THEN Letter((j + 1) \div 2) ELSE Blank(j \div 2)]

\* file.read() of a file of each kind
FileText == [k \in TextKinds |-> IF k = "short" THEN Doc(WordsShort) ELSE Doc(WordsLong)]

\* get_text_chunks(content) for the text of each kind (default chunk_size)
FileChunks == [k \in TextKinds |-> get_text_chunks(FileText[k], DefaultChunkSize)]

\* the collection_name argument of the run
collection_name == "docs"

\* the names a store's collections can have
CollectionNames == {collection_name, "notes"}

\* the model_name argument of the run and the length of the vectors it encodes
ModelNames == {"all-MiniLM-L6-v2", "all-mpnet-base-v2"}
EmbeddingSize(name) == IF name = "all-MiniLM-L6-v2" THEN VectorSize ELSE 2 * VectorSize

\* model.encode(chunk): the vector, known by its length and the model
Encode(name, chunk) == [size |-> EmbeddingSize(name), model |-> name]

\* response["response"].strip() of a successful ollama.generate
KeywordTexts == {"kw"}

\* the store with no point
NoPoints == [i \in {} |-> i]

(***************************************************************************)
(* The state.                                                              *)
(***************************************************************************)
VARIABLES
    \* the environment
    folder,           \* name -> kind of entry
    collections,      \* the store: name of each collection -> its vector size
    points,           \* the store: point id -> point, of collection_name
    \* process_files_and_save_to_qdrant
    pc,               \* where the run is
    model_name,       \* its argument
    files,            \* the paths of glob not yet iterated
    file_path,        \* the loop variable
    chunks,           \* get_text_chunks(content)
    idx,              \* the chunk loop's index
    embedding,        \* model.encode(chunk)
    keywords,         \* get_keywords_from_ollama(chunk)
    point_id,         \* the identifier counter
    \* bookkeeping of the runs (history, read by no action's guard but Start)
    runs,             \* runs started so far
    upserts,          \* upserts that succeeded in this run
    skips,            \* chunks skipped as duplicates in this run
    failed,           \* a read, store or embedding call raised in this run
    kw_failed,        \* ollama.generate raised for the current chunk
    mismatch,         \* the store rejected a vector's length in this run
    written,          \* <<identifier, point>> upserted in this run
    attempted,        \* entries of glob this run has iterated
    points_at_start,  \* points when this run started
    folder_at_start,  \* folder when this run started
    prev,             \* the previous run
    ever,             \* <<file_name, chunk_number>> upserted in any run
    faults,           \* disturbances so far, in all runs
    log,              \* the collaborator calls of this run's loop, in order
    issued,           \* collection name -> create_collection calls made
    created,          \* collection name -> create_collection calls that succeeded
    \* a call of initialize_qdrant on its own
    init_name, init_calls, init_result,
    \* a call of get_text_chunks on its own
    arg_text, arg_chunk_size, ret_chunks, returned

storeVars == <<collections, points>>
runVars == <<pc, model_name, files, file_path, chunks, idx, embedding, keywords, point_id>>
histVars == <<runs, upserts, skips, failed, kw_failed, mismatch, written, attempted,
              points_at_start, folder_at_start, prev, ever, faults, log, issued, created>>
chunkVars == <<arg_text, arg_chunk_size, ret_chunks, returned>>
initVars == <<init_name, init_calls, init_result>>
vars == <<folder, storeVars, runVars, histVars, chunkVars, initVars>>

Stopped == {"idle", "done", "killed", "aborted"}
Running == {"init", "files", "check", "encode", "keywords", "upsert"}

\* a local variable that holds nothing yet
NoVector == [size |-> 0, model |-> ""]
NoRun == [outcome |-> "none", failed |-> FALSE, upserts |-> 0, written |-> {}, skips |-> 0,
          folder |-> [f \in FileNames |-> "absent"], from_empty |-> FALSE]

(***************************************************************************)
(* The store's operations.                                                 *)
(***************************************************************************)
\* PointStruct(id, vector, payload) with the metadata of lines 168-173
PointStruct(vector, file_name, chunk_number, content, kw) ==
    [vector |-> vector,
     payload |-> [file_name |-> file_name, chunk_number |-> chunk_number,
                  content |-> content, keywords |-> kw]]

\* Filter(must=[file_name = f, chunk_number = n]) applied to a point
MatchesFilter(p, file_name, chunk_number) ==
    /\ p.payload.file_name = file_name
    /\ p.payload.chunk_number = chunk_number

\* client.scroll(scroll_filter, limit): the first `limit` matching points,
\* by identifier
Scroll(pts, file_name, chunk_number, limit) ==
    LET ids == {i \in DOMAIN pts : MatchesFilter(pts[i], file_name, chunk_number)}
        nth(k) == CHOOSE i \in ids : Cardinality({j \in ids : j < i}) = k - 1
    IN  [k \in 1..Min(limit, Cardinality(ids)) |-> pts[nth(k)]]

\* a mutant of is_duplicate_chunk: the filter forgets chunk_number
is_duplicate_chunk_any_chunk(pts, file_name, chunk_number) ==
    \E n \in 1..Len(FileChunks["long"]) : Len(Scroll(pts, file_name, n, ScrollLimit)) > 0

\* a mutant of is_duplicate_chunk: the query asks for no point (limit=0)
is_duplicate_chunk_never(pts, file_name, chunk_number) ==
    Len(Scroll(pts, file_name, chunk_number, 0)) > 0

\* is_duplicate_chunk(client, collection_name, file_name, chunk_number)
is_duplicate_chunk(pts, file_name, chunk_number) ==
    Len(Scroll(pts, file_name, chunk_number, ScrollLimit)) > 0

\* a mutant of StoreUpsert: every point gets the first identifier
StoreUpsert_first_id(pts, id, p) == (0 :> p) @@ pts

\* client.upsert(points=[PointStruct(id, ...)]): insert, or replace the point
\* that has the identifier
StoreUpsert(pts, id, p) == (id :> p) @@ pts

\* the store accepts a vector only of the collection's size
StoreAccepts(vector) ==
    /\ collection_name \in DOMAIN collections
    /\ collections[collection_name] = vector.size

\* glob.glob(os.path.join(folder_path, '*.txt'))
Glob(dir) == {f \in FileNames : dir[f] # "absent"}

(***************************************************************************)
(* Initial state: an empty store, with or without the collection; a.txt is *)
(* the long document and b.txt is anything (glob's order is arbitrary, so  *)
(* the two names are interchangeable); no run yet.                         *)
(***************************************************************************)
RunIdle ==
    /\ pc = "idle"
    /\ model_name = ""
    /\ files = {}
    /\ file_path = ""
    /\ chunks = <<>>
    /\ idx = 0
    /\ embedding = NoVector
    /\ keywords = ""
    /\ point_id = 0
    /\ runs = 0
    /\ upserts = 0
    /\ skips = 0
    /\ failed = FALSE
    /\ kw_failed = FALSE
    /\ mismatch = FALSE
    /\ written = {}
    /\ attempted = {}
    /\ points_at_start = NoPoints
    /\ folder_at_start = [f \in FileNames |-> "absent"]
    /\ prev = NoRun
    /\ ever = {}
    /\ faults = 0
    /\ log = <<>>
    /\ issued = [n \in CollectionNames |-> 0]
    /\ created = [n \in CollectionNames |-> 0]

NoCall ==
    /\ arg_text = <<>>
    /\ arg_chunk_size = 1
    /\ ret_chunks = <<>>
    /\ returned = FALSE

NoInitCall ==
    /\ init_name = ""
    /\ init_calls = 0
    /\ init_result = "none"

Init ==
    /\ folder \in {d \in [FileNames -> EntryKinds] : d["a.txt"] = "long"}
    /\ collections \in {[n \in {} |-> 0], [n \in {collection_name} |-> VectorSize]}
    /\ points = NoPoints
    /\ RunIdle
    /\ NoCall
    /\ NoInitCall

(***************************************************************************)
(* process_files_and_save_to_qdrant, one step per collaborator call.       *)
(* Each disturbance (a collaborator's failure, a kill, a change of the      *)
(* folder, a run with a model of the wrong vector size) spends one of      *)
(* MaxFaults.                                                              *)
(***************************************************************************)
\* what no step of a run changes
envVars == <<folder, runs, points_at_start, folder_at_start, prev, chunkVars, initVars>>

Fault ==
    /\ faults < MaxFaults
    /\ faults' = faults + 1

\* one collaborator call of the loop over the files: the call, the file and
\* chunk it is for, and how it came back
Call(op, f, n, r) == [op |-> op, f |-> f, n |-> n, r |-> r]
Logged(op, f, n, r) == log' = Append(log, Call(op, f, n, r))

\* the run is called: what the previous run left becomes history
Called ==
    /\ pc \in Stopped
    /\ \E m \in ModelNames :
        /\ model_name' = m
        /\ IF EmbeddingSize(m) = VectorSize THEN faults' = faults ELSE Fault
    /\ pc' = "init"
    /\ prev' = IF runs = 0 THEN NoRun
               ELSE [outcome |-> pc, failed |-> failed, upserts |-> upserts,
                     skips |-> skips,
                     written |-> written, folder |-> folder_at_start,
                     from_empty |-> points_at_start = NoPoints]
    /\ points_at_start' = points
    /\ folder_at_start' = folder
    /\ upserts' = 0
    /\ skips' = 0
    /\ failed' = FALSE
    /\ kw_failed' = FALSE
    /\ mismatch' = FALSE
    /\ written' = {}
    /\ attempted' = {}
    /\ files' = {}
    /\ file_path' = ""
    /\ chunks' = <<>>
    /\ idx' = 0
    /\ embedding' = NoVector
    /\ keywords' = ""
    /\ point_id' = 0
    /\ log' = <<>>
    /\ UNCHANGED <<folder, storeVars, ever, chunkVars, initVars, issued, created>>

\* one of the MaxRuns runs that are counted
Start ==
    /\ runs < MaxRuns
    /\ runs' = runs + 1
    /\ Called

\* a mutant of ListsCollection: the name is never found in the list
ListsCollection_never(colls, name) == FALSE

\* line 60: collection_name is among the names get_collections lists
ListsCollection(colls, name) == name \in DOMAIN colls

\* client.create_collection(name, VectorParams(size=384, distance=COSINE))
CreateCollection(colls, name) == (name :> VectorSize) @@ colls

\* initialize_qdrant: create the collection unless get_collections lists it
InitializeCollections(colls, name) ==
    IF ~ListsCollection(colls, name) THEN CreateCollection(colls, name) ELSE colls

\* one more call counted for a name
OneMore(count, name) == [count EXCEPT ![name] = @ + 1]

\* initialize_qdrant(name) returns the client
InitializeStore(name) ==
    /\ collections' = InitializeCollections(collections, name)
    /\ issued' = IF ListsCollection(collections, name) THEN issued
                 ELSE OneMore(issued, name)
    /\ created' = IF ListsCollection(collections, name) THEN created
                  ELSE OneMore(created, name)

\* initialize_qdrant(name) raises: in get_collections, or in the
\* create_collection it issued
InitializeStoreFails(name) ==
    /\ collections' = collections
    /\ created' = created
    /\ \/ issued' = issued
       \/ /\ ~ListsCollection(collections, name)
          /\ issued' = OneMore(issued, name)

\* lines 144-148: the model, initialize_qdrant, point_id = 0, glob
InitializeQdrant ==
    /\ pc = "init"
    /\ InitializeStore(collection_name)
    /\ point_id' = 0
    /\ files' = Glob(folder)
    /\ pc' = "files"
    /\ UNCHANGED <<envVars, log, points, model_name, file_path, chunks, idx, embedding,
                   keywords, upserts, skips, failed, kw_failed, mismatch, written, attempted,
                   ever, faults>>

\* the store cannot be reached: the exception leaves the function (no try)
InitializeQdrantFails ==
    /\ pc = "init"
    /\ Fault
    /\ InitializeStoreFails(collection_name)
    /\ pc' = "aborted"
    /\ failed' = TRUE
    /\ model_name' = ""
    /\ UNCHANGED <<envVars, log, points, files, file_path, chunks, idx, embedding,
                   keywords, point_id, upserts, skips, kw_failed, mismatch, written,
                   attempted, ever>>

\* the locals of the chunk loop, as they are outside it
LeaveFile ==
    /\ file_path' = ""
    /\ chunks' = <<>>
    /\ idx' = 0
    /\ embedding' = NoVector
    /\ keywords' = ""

\* a mutant of HandleException: the exception ends the run
HandleException_abort ==
    /\ pc' = "done"
    /\ failed' = TRUE
    /\ LeaveFile
    /\ UNCHANGED <<model_name, point_id>>

\* a mutant of HandleException: the exception is caught inside the chunk
\* loop, which goes on with the next chunk
HandleException_continue ==
    /\ failed' = TRUE
    /\ IF idx + 1 > Len(chunks)
       THEN /\ pc' = "files"
            /\ LeaveFile
       ELSE /\ pc' = "check"
            /\ idx' = idx + 1
            /\ embedding' = NoVector
            /\ keywords' = ""
            /\ UNCHANGED <<file_path, chunks>>
    /\ UNCHANGED <<model_name, point_id>>

\* a mutant of HandleException: the handler moves the counter on
HandleException_count ==
    /\ pc' = "files"
    /\ failed' = TRUE
    /\ LeaveFile
    /\ point_id' = point_id + 1
    /\ UNCHANGED model_name

\* except Exception (lines 184-185): log, and go on with the next file
HandleException ==
    /\ pc' = "files"
    /\ failed' = TRUE
    /\ LeaveFile
    /\ UNCHANGED <<model_name, point_id>>

\* the for loop over glob's paths is exhausted: the function returns
Finish ==
    /\ pc = "files"
    /\ files = {}
    /\ pc' = "done"
    /\ model_name' = ""
    /\ UNCHANGED <<envVars, log, issued, created, storeVars, files, file_path, chunks, idx, embedding,
                   keywords, point_id, upserts, skips, failed, kw_failed, mismatch, written,
                   attempted, ever, faults>>

\* line 149: a path that is no file is passed over
SkipNonFile ==
    /\ pc = "files"
    /\ \E f \in files :
        /\ folder[f] \notin TextKinds
        /\ files' = files \ {f}
        /\ attempted' = attempted \cup {f}
        /\ Logged("isfile", f, 0, "false")
    /\ UNCHANGED <<envVars, issued, created, storeVars, pc, model_name, file_path, chunks, idx,
                   embedding, keywords, point_id, upserts, skips, failed, kw_failed, mismatch,
                   written, ever, faults>>

\* lines 151-155: open, read, get_text_chunks, enter the chunk loop
ReadFile ==
    /\ pc = "files"
    /\ \E f \in files :
        /\ folder[f] \in TextKinds
        /\ files' = files \ {f}
        /\ attempted' = attempted \cup {f}
        /\ Logged("read", f, 0, "ok")
        /\ IF FileChunks[folder[f]] = <<>>
           THEN /\ pc' = "files"
                /\ UNCHANGED <<file_path, chunks, idx>>
           ELSE /\ pc' = "check"
                /\ file_path' = f
                /\ chunks' = FileChunks[folder[f]]
                /\ idx' = 1
    /\ UNCHANGED <<envVars, issued, created, storeVars, model_name, embedding, keywords, point_id,
                   upserts, skips, failed, kw_failed, mismatch, written, ever, faults>>

\* a mutant of ReadFileFails: the file that could not be read stays among
\* those to iterate
ReadFileFails_again ==
    /\ pc = "files"
    /\ \E f \in files :
        /\ folder[f] \in TextKinds
        /\ files' = files
        /\ attempted' = attempted \cup {f}
        /\ Logged("read", f, 0, "error")
    /\ Fault
    /\ HandleException
    /\ kw_failed' = FALSE
    /\ UNCHANGED <<envVars, issued, created, storeVars, upserts, skips, mismatch, written, ever>>

\* open or read raises (lines 151-152)
ReadFileFails ==
    /\ pc = "files"
    /\ \E f \in files :
        /\ folder[f] \in TextKinds
        /\ files' = files \ {f}
        /\ attempted' = attempted \cup {f}
        /\ Logged("read", f, 0, "error")
    /\ Fault
    /\ HandleException
    /\ kw_failed' = FALSE
    /\ UNCHANGED <<envVars, issued, created, storeVars, upserts, skips, mismatch, written, ever>>

\* the end of the chunk loop's body: the next chunk, or the next file
Advance ==
    IF idx + 1 > Len(chunks)
    THEN /\ pc' = "files"
         /\ LeaveFile
    ELSE /\ pc' = "check"
         /\ idx' = idx + 1
         /\ embedding' = NoVector
         /\ keywords' = ""
         /\ UNCHANGED <<file_path, chunks>>

\* a mutant of SkipDuplicate: the stored content is brought up to date with
\* the chunk's text
SkipDuplicate_refresh ==
    /\ pc = "check"
    /\ is_duplicate_chunk(points, file_path, idx)
    /\ points' = [i \in DOMAIN points |->
                    IF MatchesFilter(points[i], file_path, idx)
                    THEN [points[i] EXCEPT !.payload.content = chunks[idx]]
                    ELSE points[i]]
    /\ Advance
    /\ skips' = skips + 1
    /\ kw_failed' = FALSE
    /\ Logged("check", file_path, idx, "true")
    /\ UNCHANGED <<envVars, issued, created, collections, model_name, files, point_id,
                   upserts, failed, mismatch, written, attempted, ever, faults>>

\* lines 157-159: the chunk is in the store already, skip it
SkipDuplicate ==
    /\ pc = "check"
    /\ is_duplicate_chunk(points, file_path, idx)
    /\ Advance
    /\ skips' = skips + 1
    /\ kw_failed' = FALSE
    /\ Logged("check", file_path, idx, "true")
    /\ UNCHANGED <<envVars, issued, created, storeVars, model_name, files, point_id, upserts, failed,
                   mismatch, written, attempted, ever, faults>>

\* a mutant of NotDuplicate: the chunk goes to the keywords without being
\* embedded
NotDuplicate_no_encode ==
    /\ pc = "check"
    /\ ~is_duplicate_chunk(points, file_path, idx)
    /\ Logged("check", file_path, idx, "false")
    /\ pc' = "keywords"
    /\ UNCHANGED <<envVars, issued, created, storeVars, model_name, files, file_path,
                   chunks, idx, embedding, keywords, point_id, upserts, skips, failed,
                   kw_failed, mismatch, written, attempted, ever, faults>>

\* line 157: the chunk is not in the store
NotDuplicate ==
    /\ pc = "check"
    /\ ~is_duplicate_chunk(points, file_path, idx)
    /\ pc' = "encode"
    /\ Logged("check", file_path, idx, "false")
    /\ UNCHANGED <<envVars, issued, created, storeVars, model_name, files, file_path, chunks, idx,
                   embedding, keywords, point_id, upserts, skips, failed, kw_failed, mismatch,
                   written, attempted, ever, faults>>

\* a mutant of DuplicateCheckFails: is_duplicate_chunk catches the error and
\* answers False
DuplicateCheckFails_false ==
    /\ pc = "check"
    /\ Fault
    /\ Logged("check", file_path, idx, "error")
    /\ pc' = "encode"
    /\ UNCHANGED <<envVars, issued, created, storeVars, model_name, files, file_path,
                   chunks, idx, embedding, keywords, point_id, upserts, skips, failed,
                   kw_failed, mismatch, written, attempted, ever>>

\* client.scroll raises
DuplicateCheckFails ==
    /\ pc = "check"
    /\ Fault
    /\ HandleException
    /\ kw_failed' = FALSE
    /\ Logged("check", file_path, idx, "error")
    /\ UNCHANGED <<envVars, issued, created, storeVars, files, upserts, skips, mismatch, written, attempted,
                   ever>>

\* line 162: embedding = model.encode(chunk)
EncodeChunk ==
    /\ pc = "encode"
    /\ embedding' = Encode(model_name, chunks[idx])
    /\ pc' = "keywords"
    /\ Logged("encode", file_path, idx, "ok")
    /\ UNCHANGED <<envVars, issued, created, storeVars, model_name, files, file_path, chunks, idx,
                   keywords, point_id, upserts, skips, failed, kw_failed, mismatch, written,
                   attempted, ever, faults>>

\* model.encode raises
EncodeFails ==
    /\ pc = "encode"
    /\ Fault
    /\ HandleException
    /\ kw_failed' = FALSE
    /\ Logged("encode", file_path, idx, "error")
    /\ UNCHANGED <<envVars, issued, created, storeVars, files, upserts, skips, mismatch, written, attempted,
                   ever>>

\* a mutant of KeywordsOnError: the exception is not caught
KeywordsOnError_raise == HandleException

\* get_keywords_from_ollama's except clause (lines 125-127): return ""
KeywordsOnError ==
    /\ keywords' = ""
    /\ pc' = "upsert"
    /\ UNCHANGED <<model_name, file_path, chunks, idx, embedding, point_id, failed>>

\* line 165: ollama.generate answers
GetKeywords ==
    /\ pc = "keywords"
    /\ \E k \in KeywordTexts : keywords' = k
    /\ kw_failed' = FALSE
    /\ pc' = "upsert"
    /\ Logged("keywords", file_path, idx, "ok")
    /\ UNCHANGED <<envVars, issued, created, storeVars, model_name, files, file_path, chunks, idx,
                   embedding, point_id, upserts, skips, failed, mismatch, written, attempted,
                   ever, faults>>

\* line 165: ollama.generate raises (a timeout, no service, the name ollama
\* not being imported)
GetKeywordsFails ==
    /\ pc = "keywords"
    /\ Fault
    /\ KeywordsOnError
    /\ kw_failed' = TRUE
    /\ files' = files
    /\ Logged("keywords", file_path, idx, "error")
    /\ UNCHANGED <<envVars, issued, created, storeVars, upserts, skips, mismatch, written, attempted,
                   ever>>

\* lines 176-183: the store takes the point; the counter moves on
Upsert ==
    /\ pc = "upsert"
    /\ StoreAccepts(embedding)
    /\ points' = StoreUpsert(points, point_id,
                    PointStruct(embedding, file_path, idx, chunks[idx], keywords))
    /\ point_id' = point_id + 1
    /\ upserts' = upserts + 1
    /\ written' = written \cup
          {<<point_id, PointStruct(embedding, file_path, idx, chunks[idx], keywords)>>}
    /\ ever' = ever \cup {<<file_path, idx>>}
    /\ Advance
    /\ kw_failed' = FALSE
    /\ Logged("upsert", file_path, idx, "ok")
    /\ UNCHANGED <<envVars, issued, created, collections, model_name, files, skips, failed, mismatch,
                   attempted, faults>>

\* client.upsert raises: the vector has not the collection's size
UpsertRejected ==
    /\ pc = "upsert"
    /\ ~StoreAccepts(embedding)
    /\ mismatch' = TRUE
    /\ HandleException
    /\ kw_failed' = FALSE
    /\ Logged("upsert", file_path, idx, "error")
    /\ UNCHANGED <<envVars, issued, created, storeVars, files, upserts, skips, written, attempted, ever,
                   faults>>

\* client.upsert raises: the store cannot be reached
UpsertFails ==
    /\ pc = "upsert"
    /\ Fault
    /\ HandleException
    /\ kw_failed' = FALSE
    /\ Logged("upsert", file_path, idx, "error")
    /\ UNCHANGED <<envVars, issued, created, storeVars, files, upserts, skips, mismatch, written, attempted,
                   ever>>

\* the process is killed from outside: its locals are gone
Kill ==
    /\ pc \in Running
    /\ Fault
    /\ pc' = "killed"
    /\ model_name' = ""
    /\ files' = {}
    /\ LeaveFile
    /\ kw_failed' = FALSE
    /\ UNCHANGED <<envVars, log, issued, created, storeVars, point_id, upserts, skips, failed, mismatch, written,
                   attempted, ever>>

\* between two runs one file of the folder is added, removed or rewritten
ChangeFolder ==
    /\ pc \in Stopped
    /\ 0 < runs /\ runs < MaxRuns
    /\ folder = folder_at_start
    /\ \E f \in FileNames, k \in TextKinds \cup {"absent"} :
        /\ folder[f] # "dir"
        /\ k # folder[f]
        /\ folder' = [folder EXCEPT ![f] = k]
    /\ Fault
    /\ UNCHANGED <<storeVars, runVars, runs, upserts, skips, failed, kw_failed, mismatch,
                   written, attempted, points_at_start, folder_at_start, prev, ever,
                   log, issued, created, chunkVars, initVars>>

Next ==
    \/ Start
    \/ InitializeQdrant
    \/ InitializeQdrantFails
    \/ Finish
    \/ SkipNonFile
    \/ ReadFile
    \/ ReadFileFails
    \/ SkipDuplicate
    \/ NotDuplicate
    \/ DuplicateCheckFails
    \/ EncodeChunk
    \/ EncodeFails
    \/ GetKeywords
    \/ GetKeywordsFails
    \/ Upsert
    \/ UpsertRejected
    \/ UpsertFails
    \/ Kill
    \/ ChangeFolder

Spec == Init /\ [][Next]_vars

(***************************************************************************)
(* The function run again and again over a folder that does not change:    *)
(* a first run, then any number of further runs, which are not counted.    *)
(* A run's steps are taken as long as some step is possible (every call    *)
(* returns), and so are the further runs.                                  *)
(***************************************************************************)
FirstRun == runs = 0 /\ Start

Repeat ==
    /\ runs >= 1
    /\ runs' = runs
    /\ Called

NextRepeat ==
    \/ FirstRun
    \/ Repeat
    \/ InitializeQdrant
    \/ InitializeQdrantFails
    \/ Finish
    \/ SkipNonFile
    \/ ReadFile
    \/ ReadFileFails
    \/ SkipDuplicate
    \/ NotDuplicate
    \/ DuplicateCheckFails
    \/ EncodeChunk
    \/ EncodeFails
    \/ GetKeywords
    \/ GetKeywordsFails
    \/ Upsert
    \/ UpsertRejected
    \/ UpsertFails
    \/ Kill

SpecRepeat == Init /\ [][NextRepeat]_vars /\ WF_vars(NextRepeat)

(***************************************************************************)
(* get_text_chunks on its own: any text over a small alphabet and any      *)
(* positive chunk_size, then the call.                                     *)
(***************************************************************************)
Alphabet == {"a", "b", " ", "\n"}
SmallTexts == UNION {[1..n -> Alphabet] : n \in 0..MaxTextLen}

InitChunk ==
    /\ folder = [f \in FileNames |-> "absent"]
    /\ collections = [n \in {} |-> 0]
    /\ points = NoPoints
    /\ RunIdle
    /\ arg_text \in SmallTexts
    /\ arg_chunk_size \in 1..MaxChunkSize
    /\ ret_chunks = <<>>
    /\ returned = FALSE
    /\ NoInitCall

CallGetTextChunks ==
    /\ ~returned
    /\ ret_chunks' = get_text_chunks(arg_text, arg_chunk_size)
    /\ returned' = TRUE
    /\ UNCHANGED <<folder, storeVars, runVars, histVars, initVars, arg_text, arg_chunk_size>>

NextChunk == CallGetTextChunks

SpecChunk == InitChunk /\ [][NextChunk]_vars

(***************************************************************************)
(* initialize_qdrant on its own: a store with any collections, of either   *)
(* vector size, and up to MaxCalls calls, each for any name.               *)
(***************************************************************************)
Stores == UNION {[S -> {VectorSize, 2 * VectorSize}] : S \in SUBSET CollectionNames}

InitStore ==
    /\ folder = [f \in FileNames |-> "absent"]
    /\ collections \in Stores
    /\ points = NoPoints
    /\ RunIdle
    /\ NoCall
    /\ NoInitCall

CallInitializeQdrant ==
    /\ init_calls < MaxCalls
    /\ \E name \in CollectionNames :
        /\ init_name' = name
        /\ InitializeStore(name)
    /\ init_calls' = init_calls + 1
    /\ init_result' = "ok"
    /\ UNCHANGED <<folder, points, runVars, runs, upserts, skips, failed, kw_failed,
                   mismatch, written, attempted, points_at_start, folder_at_start,
                   prev, ever, faults, log, chunkVars>>

CallInitializeQdrantFails ==
    /\ init_calls < MaxCalls
    /\ \E name \in CollectionNames :
        /\ init_name' = name
        /\ InitializeStoreFails(name)
    /\ init_calls' = init_calls + 1
    /\ init_result' = "error"
    /\ UNCHANGED <<folder, points, runVars, runs, upserts, skips, failed, kw_failed,
                   mismatch, written, attempted, points_at_start, folder_at_start,
                   prev, ever, faults, log, chunkVars>>

NextStore == CallInitializeQdrant \/ CallInitializeQdrantFails

SpecStore == InitStore /\ [][NextStore]_vars

(***************************************************************************)
(* Notions the properties are stated with, defined apart from the code.    *)
(***************************************************************************)
\* a text with every run of whitespace made one space, and none at its ends
RECURSIVE Collapse(_)
Collapse(text) ==
    IF text = <<>> THEN <<>>
    ELSE IF IsSpace(Head(text))
         THEN IF Len(text) = 1 \/ IsSpace(text[2])
              THEN Collapse(Tail(text))
              ELSE <<" ">> \o Collapse(Tail(text))
         ELSE <<Head(text)>> \o Collapse(Tail(text))

Normalize(text) ==
    LET c == Collapse(text)
    IN  IF c # <<>> /\ c[1] = " " THEN Tail(c) ELSE c

\* the words of a whitespace-normalized text: one more than its spaces
NumWords(t) == IF t = <<>> THEN 0 ELSE 1 + Cardinality({i \in 1..Len(t) : t[i] = " "})

\* ceil(w / size)
CeilDiv(w, size) == (w + size - 1) \div size

\* the words of a document of the folder, and words lo..hi of it joined by
\* single spaces
WordsOf(kind) == IF kind = "short" THEN WordsShort ELSE WordsLong
WordSpan(lo, hi) ==
    [p \in 1..(2 * (hi - lo + 1) - 1) |->
        IF p % 2 = 1 THEN Letter(lo + (p - 1) \div 2) ELSE " "]

\* the identifiers of the points with a key
IdsOf(pts, file_name, chunk_number) ==
    {i \in DOMAIN pts : /\ pts[i].payload.file_name = file_name
                        /\ pts[i].payload.chunk_number = chunk_number}
IdsOfFile(pts, file_name) == {i \in DOMAIN pts : pts[i].payload.file_name = file_name}

\* the payloads of the store
Payloads(pts) == {pts[i].payload : i \in DOMAIN pts}

\* the chunks of the files of a folder, as keys
KeysOf(dir) ==
    {<<f, n>> \in FileNames \X (1..CeilDiv(WordsLong, DefaultChunkSize)) :
        dir[f] \in TextKinds /\ n <= CeilDiv(WordsOf(dir[f]), DefaultChunkSize)}

\* no key is on two points
NoKeyTwice(pts) ==
    \A i, j \in DOMAIN pts :
        (/\ pts[i].payload.file_name = pts[j].payload.file_name
         /\ pts[i].payload.chunk_number = pts[j].payload.chunk_number) => i = j

\* this run and the one before it both ran to their end, the first from an
\* empty store, over the same folder
TwoCompleteRuns ==
    /\ pc = "done"
    /\ prev.outcome = "done"
    /\ prev.from_empty
    /\ prev.folder = folder_at_start

C2_NeverReplaces ==
    [][upserts' = upserts + 1 => point_id \notin DOMAIN points]_vars

(***************************************************************************)
(* C3.  Resumption is safe: when a run was killed and the next run, over   *)
(* the same folder, has run to its end with no failure, every point the    *)
(* killed run upserted is still in the store and every chunk of the folder *)
(* is on exactly one point.                                                *)
(***************************************************************************)
C3_ResumptionSafe ==
    (/\ pc = "done" /\ ~failed
     /\ prev.outcome = "killed"
     /\ prev.folder = folder_at_start) =>
        /\ \A w \in prev.written : w[1] \in DOMAIN points /\ points[w[1]] = w[2]
        /\ \A k \in KeysOf(folder_at_start) : Cardinality(IdsOf(points, k[1], k[2])) = 1

(***************************************************************************)
(* C4.  Duplicate check correctness: is_duplicate_chunk is true for (f, n) *)
(* right after the upsert of a point with that key; it is false for every  *)
(* key never upserted; it is true exactly when the store holds a point     *)
(* that matches both fields.                                               *)
(***************************************************************************)
C4_DuplicateCheck ==
    /\ [][upserts' = upserts + 1 => is_duplicate_chunk(points', file_path, idx)]_vars
    /\ [](\A k \in FileNames \X (1..CeilDiv(WordsLong, DefaultChunkSize)) :
            /\ k \notin ever => ~is_duplicate_chunk(points, k[1], k[2])
            /\ is_duplicate_chunk(points, k[1], k[2]) <=> IdsOf(points, k[1], k[2]) # {})

\* chunk 1 of a.txt is stored and found, chunk 2 is not
C4_Witness ==
    /\ upserts > 0
    /\ is_duplicate_chunk(points, "a.txt", 1)
    /\ ~is_duplicate_chunk(points, "a.txt", 2)

(***************************************************************************)
(* C5.  Keyword enrichment is best-effort: when ollama.generate raises for *)
(* a chunk, the run goes on to the upsert with keywords = ""; the upsert   *)
(* stores the chunk's point with keywords = "", the counter advances by    *)
(* one, and the next chunk of the same file is next.                       *)
(***************************************************************************)
C5_KeywordsBestEffort ==
    /\ [](kw_failed => pc = "upsert" /\ keywords = "" /\ file_path # "")
    /\ [][(kw_failed /\ upserts' = upserts + 1) =>
            /\ point_id \in DOMAIN points'
            /\ points'[point_id].payload =
                 [file_name |-> file_path, chunk_number |-> idx,
                  content |-> chunks[idx], keywords |-> ""]
            /\ point_id' = point_id + 1
            /\ idx < Len(chunks) =>
                 (pc' = "check" /\ idx' = idx + 1 /\ file_path' = file_path)]_vars

\* a point stored with keywords = "" and the next chunk of its file at hand
C5_Witness ==
    /\ pc = "check"
    /\ \E w \in written :
        /\ w[2].payload.keywords = ""
        /\ w[2].payload.file_name = file_path
        /\ w[2].payload.chunk_number + 1 = idx
        /\ w[1] \in DOMAIN points /\ points[w[1]] = w[2]

(***************************************************************************)
(* C6.  Per-file error isolation: an exception in one file does not end    *)
(* the run: at the end of the run every path of glob has been iterated,    *)
(* and the points the run upserted are in the store as upserted.           *)
(***************************************************************************)
C6_FileIsolation ==
    /\ pc = "done" => attempted = Glob(folder_at_start)
    /\ pc \in Running \cup {"done"} =>
         \A w \in written : w[1] \in DOMAIN points /\ points[w[1]] = w[2]

\* a run that ended after a failure in a file it had upserted from, and
\* then upserted from the other file
C6_Witness ==
    /\ pc = "done" /\ failed /\ ~mismatch
    /\ \E w1, w2 \in written :
        /\ w1[1] < w2[1]
        /\ w1[2].payload.file_name # w2[2].payload.file_name
        /\ \E k \in KeysOf(folder_at_start) :
            k[1] = w1[2].payload.file_name /\ IdsOf(points, k[1], k[2]) = {}

(***************************************************************************)
(* C7.  A vector of the wrong size is fatal: once the store has rejected   *)
(* one, the run handles no further chunk.                                  *)
(***************************************************************************)
C7_MismatchAborts ==
    mismatch => pc \notin {"check", "encode", "keywords", "upsert"}

(***************************************************************************)
(* C8.  Clean-run completeness: after a run with no failure on an empty    *)
(* store, a file of W words has exactly ceil(W / 100) points, numbered     *)
(* 1..ceil(W / 100), and point i holds words 100(i-1)+1 .. min(100i, W).   *)
(***************************************************************************)
C8_CleanRunComplete ==
    (pc = "done" /\ ~failed /\ points_at_start = NoPoints) =>
        \A f \in FileNames :
            IF folder_at_start[f] \in TextKinds
            THEN LET W == WordsOf(folder_at_start[f])
                     n == CeilDiv(W, DefaultChunkSize)
                 IN  /\ Cardinality(IdsOfFile(points, f)) = n
                     /\ \A i \in 1..n :
                          \E id \in IdsOfFile(points, f) :
                            /\ points[id].payload.chunk_number = i
                            /\ points[id].payload.content =
                                 WordSpan(DefaultChunkSize * (i - 1) + 1,
                                          Min(DefaultChunkSize * i, W))
            ELSE IdsOfFile(points, f) = {}

\* the 250 words of a.txt are stored as 3 points, and b.txt is stored too
C8_Witness ==
    /\ pc = "done" /\ ~failed /\ points_at_start = NoPoints
    /\ Cardinality(IdsOfFile(points, "a.txt")) >= 3
    /\ IdsOfFile(points, "b.txt") # {}

(***************************************************************************)
(* C9.  Chunk reconstruction: the chunks of get_text_chunks(T, S) joined   *)
(* with single spaces are the whitespace-normalized T.                     *)
(***************************************************************************)
C9_Reconstruction ==
    returned => Join(<<" ">>, ret_chunks) = Normalize(arg_text)

\* two chunks or more of a text that normalization changes
C9_Witness ==
    /\ returned
    /\ Len(ret_chunks) >= 2
    /\ Normalize(arg_text) # arg_text

(***************************************************************************)
(* C10.  Chunk sizes: every chunk but the last has exactly S words, the    *)
(* last has 1..S, and a text of no word gives no chunk.                    *)
(***************************************************************************)
C10_ChunkSizes ==
    returned =>
        /\ \A k \in 1..(Len(ret_chunks) - 1) : NumWords(ret_chunks[k]) = arg_chunk_size
        /\ ret_chunks # <<>> =>
             /\ NumWords(ret_chunks[Len(ret_chunks)]) >= 1
             /\ NumWords(ret_chunks[Len(ret_chunks)]) <= arg_chunk_size
        /\ (\A i \in 1..Len(arg_text) : IsSpace(arg_text[i])) => ret_chunks = <<>>
        /\ Len(ret_chunks) = CeilDiv(NumWords(Normalize(arg_text)), arg_chunk_size)

\* a full chunk followed by a shorter last chunk
C10_Witness ==
    /\ returned
    /\ Len(ret_chunks) = 2
    /\ arg_chunk_size = 2
    /\ NumWords(ret_chunks[2]) = 1

\* the last step was a call of initialize_qdrant(name)
InitCalled(name) == init_calls' = init_calls + 1 /\ init_name' = name

\* C11: initialize_qdrant(name) that returns has issued create_collection
\* exactly when the store listed no collection called name, and no call
\* issues it otherwise; a collection that exists is left as it is, with its
\* vector size, and no create is issued for it; the other collections are not
\* touched; after a call that returned the collection exists, and over any
\* number of calls it has been created at most once.
C11_EnsureCollection ==
    /\ [][\A name \in CollectionNames : InitCalled(name) =>
            /\ init_result' = "ok" =>
                   /\ issued'[name] = issued[name] + 1 <=> name \notin DOMAIN collections
                   /\ name \in DOMAIN collections'
                   /\ created'[name] = issued'[name] - issued[name] + created[name]
            /\ issued'[name] # issued[name] => name \notin DOMAIN collections
            /\ name \in DOMAIN collections => collections' = collections
            /\ \A m \in DOMAIN collections \ {name} :
                   m \in DOMAIN collections' /\ collections'[m] = collections[m]
            /\ \A m \in CollectionNames \ {name} :
                   m \in DOMAIN collections' => m \in DOMAIN collections]_vars
    /\ [](\A name \in CollectionNames : created[name] <= 1)

\* two calls or more have been made, the last one returned, for a collection
\* that a call created, beside a collection of another vector size that no
\* call created
C11_Witness ==
    /\ init_calls >= 2
    /\ init_result = "ok"
    /\ created[init_name] = 1
    /\ \E m \in DOMAIN collections :
          collections[m] = 2 * VectorSize /\ issued[m] = 0

\* the step made a collaborator call of the loop, and the call it made
CallMade == Len(log') = Len(log) + 1
LastCall == log'[Len(log')]
UpsertDone == CallMade /\ LastCall.op = "upsert" /\ LastCall.r = "ok"

\* C12: in a run the counter is 0 until the first upsert succeeds and always
\* equals the number of upserts that have succeeded in the run; a successful
\* upsert writes the point under the counter's value and moves the counter
\* on by one; no other step of the run (a duplicate skipped, a duplicate
\* check, an upsert, an embedding or a read that failed) changes it; so the
\* identifiers the run has written are 0 .. upserts - 1, each once.
C12_IdentifierCounter ==
    /\ [](point_id = upserts)
    /\ [](pc \in Running /\ ~(\E k \in 1..Len(log) : log[k].op = "upsert" /\ log[k].r = "ok")
            => point_id = 0)
    /\ []({w[1] : w \in written} = 0..(upserts - 1) /\ Cardinality(written) = upserts)
    /\ [][IF UpsertDone
           THEN /\ point_id' = point_id + 1
                /\ \E w \in written' \ written :
                      /\ w[1] = point_id
                      /\ w[2].payload.file_name = LastCall.f
                      /\ w[2].payload.chunk_number = LastCall.n
                      /\ point_id \in DOMAIN points' /\ points'[point_id] = w[2]
           ELSE runs' = runs => point_id' = point_id /\ written' = written]_vars

\* a run that wrote two points or more and then met an error
C12_Witness ==
    /\ pc \in Running
    /\ failed
    /\ upserts >= 2
    /\ point_id = upserts
    /\ log[Len(log)].r = "error"

\* the calls of the run's log that are for a chunk
CallsFor(f, n) == {k \in 1..Len(log) : log[k].f = f /\ log[k].n = n}
CheckFailed(k) == log[k].op = "check" /\ log[k].r = "error"
WrittenKeys == {<<w[2].payload.file_name, w[2].payload.chunk_number>> : w \in written}

\* C13: when the store query of the duplicate check raises for a chunk, the
\* error leaves the check for the handler of the file (the next step is at
\* the loop over the files, with the error recorded), nothing is counted as
\* skipped, and that check is the only collaborator call the run ever makes
\* for the chunk: it is not embedded, given keywords, upserted or reported
\* as a duplicate.
C13_FailedCheck ==
    /\ [](\A k \in 1..Len(log) : CheckFailed(k) =>
             /\ CallsFor(log[k].f, log[k].n) = {k}
             /\ <<log[k].f, log[k].n>> \notin WrittenKeys
             /\ failed)
    /\ [][CallMade /\ LastCall.op = "check" /\ LastCall.r = "error" =>
             /\ pc' = "files"
             /\ skips' = skips /\ upserts' = upserts
             /\ points' = points]_vars

\* a run ended after a duplicate check of it raised and it went on to
\* another file
C13_Witness ==
    /\ pc = "done"
    /\ \E k \in 1..Len(log) : CheckFailed(k) /\ k < Len(log) /\ log[Len(log)].f # log[k].f

\* a store call for a chunk (the duplicate check or the upsert) raised
StoreCallFailed(k) == log[k].op \in {"check", "upsert"} /\ log[k].r = "error"

\* C14: when the duplicate check or the upsert of chunk n of a file raises,
\* the run makes no call (duplicate check, embedding, keywords, upsert) for a
\* chunk of the file with a greater index and no further call for the file
\* at all, so the failed call is not made again; the points the run had
\* written for chunks of the file with a smaller index are in the store, as
\* written, for the rest of the run; and the run is next at the loop over
\* the files, with the files not yet iterated still to come and the next of
\* them, if any, ready to be taken.
C14_AbortsFileOnly ==
    /\ [](\A k \in 1..Len(log) : StoreCallFailed(k) =>
             /\ \A j \in 1..Len(log) : log[j].f = log[k].f => log[j].n <= log[k].n
             /\ \A j \in (k + 1)..Len(log) : log[j].f # log[k].f
             /\ \A w \in written :
                   (w[2].payload.file_name = log[k].f /\ w[2].payload.chunk_number < log[k].n)
                   => w[1] \in DOMAIN points /\ points[w[1]] = w[2])
    /\ [][CallMade /\ LastCall.op \in {"check", "upsert"} /\ LastCall.r = "error" =>
             /\ pc' = "files"
             /\ files' = files /\ attempted' = attempted
             /\ points' = points]_vars
    /\ [](pc = "files" /\ files # {} => ENABLED (ReadFile \/ SkipNonFile))

\* an upsert raised for a chunk of a file after the run had written an
\* earlier chunk of it, and the run went on to another file and wrote a
\* point for it
C14_Witness ==
    \E k \in 1..Len(log) :
        /\ log[k].op = "upsert" /\ log[k].r = "error" /\ log[k].n >= 2
        /\ \E w \in written : w[2].payload.file_name = log[k].f
        /\ \E j \in (k + 1)..Len(log) : log[j].op = "upsert" /\ log[j].r = "ok"

\* call k of the run's log is the call op for the chunk of call j
SameChunk(j, k) == log[j].f = log[k].f /\ log[j].n = log[k].n
IsCall(k, op, rs) == k >= 1 /\ log[k].op = op /\ log[k].r \in rs

\* C15: in the calls of a run, in their order, every upsert (accepted or not)
\* comes right after the keyword call for its chunk, that right after the
\* embedding call for it, which returned, and that right after the duplicate
\* check for it, which answered false; a chunk whose duplicate check answered
\* true has no other call; the first check of a file is for chunk 1 and each
\* later one for the chunk after the last; and the calls for one file are
\* not interleaved with those for another.
C15_ProtocolOrder ==
    \A k \in 1..Len(log) :
        /\ log[k].op = "upsert" =>
              /\ IsCall(k - 1, "keywords", {"ok", "error"}) /\ SameChunk(k - 1, k)
        /\ log[k].op = "keywords" =>
              /\ IsCall(k - 1, "encode", {"ok"}) /\ SameChunk(k - 1, k)
        /\ log[k].op = "encode" =>
              /\ IsCall(k - 1, "check", {"false"}) /\ SameChunk(k - 1, k)
        /\ IsCall(k, "check", {"true"}) => CallsFor(log[k].f, log[k].n) = {k}
        /\ log[k].op = "check" =>
              \/ log[k].n = 1 /\ IsCall(k - 1, "read", {"ok"}) /\ log[k - 1].f = log[k].f
              \/ /\ log[k].n > 1 /\ k > 1
                 /\ log[k - 1].f = log[k].f /\ log[k - 1].n = log[k].n - 1
                 /\ \/ IsCall(k - 1, "check", {"true"})
                    \/ IsCall(k - 1, "upsert", {"ok"})
        /\ \A j \in 1..(k - 1) : log[j].f = log[k].f =>
              /\ log[j].n <= log[k].n
              /\ \A i \in j..k : log[i].f = log[k].f

\* a run skipped one chunk of a file as a duplicate and upserted the next
C15_Witness ==
    \E k \in 2..Len(log) :
        /\ IsCall(k, "upsert", {"ok"})
        /\ \E j \in 1..k : IsCall(j, "check", {"true"}) /\ log[j].f = log[k].f

\* a step of the run in which every collaborator called returns a result
StepReturning ==
    \/ InitializeQdrant \/ Finish \/ SkipNonFile \/ ReadFile \/ SkipDuplicate
    \/ NotDuplicate \/ EncodeChunk \/ GetKeywords \/ Upsert \/ UpsertRejected

\* the collaborator calls a run can still make, at most: four for each chunk
\* left of the current file, and one more than four for each chunk of the
\* longest document for each file left, the return, and the initialization
CallsOfFile == 4 * Len(FileChunks["long"]) + 2
Stage == [p \in Running |-> CASE p = "check" -> 4 [] p = "encode" -> 3
                              [] p = "keywords" -> 2 [] p = "upsert" -> 1
                              [] OTHER -> 0]
Measure ==
    IF pc \notin Running THEN 0
    ELSE IF pc = "init" THEN (Cardinality(FileNames) + 1) * CallsOfFile
    ELSE 1 + Cardinality(files) * CallsOfFile
           + (IF pc = "files" THEN 0 ELSE 4 * (Len(chunks) - idx) + Stage[pc])

\* the calls of the run's log that took up a file
TakenUp(f) == {k \in 1..Len(log) : log[k].op \in {"read", "isfile"} /\ log[k].f = f}

\* C16: a run in which every call returns, with a result or an error, ends:
\* whenever the run is under way a step whose calls return a result is
\* possible, and every step of the run, whatever its calls return, makes a
\* bounded natural-number measure of the work left smaller. When the loop
\* has ended, each file that glob listed has been taken up exactly once and
\* no other has; and at no time has the run made the same call twice for a
\* file or a chunk.
C16_Termination ==
    /\ [](pc \in Running => ENABLED StepReturning)
    /\ [][(pc \in Running) => Measure > Measure']_vars
    /\ [](pc = "done" =>
            /\ attempted = Glob(folder_at_start)
            /\ \A f \in FileNames :
                  Cardinality(TakenUp(f)) = IF f \in Glob(folder_at_start) THEN 1 ELSE 0)
    /\ [](/\ \A j, k \in 1..Len(log) :
                 (log[j].op = log[k].op /\ SameChunk(j, k)) => j = k
          /\ \A f \in FileNames : Cardinality(TakenUp(f)) <= 1)

\* a run over two files ended after a call for each of them raised or was
\* refused
C16_Witness ==
    /\ pc = "done"
    /\ Cardinality(attempted) = 2
    /\ \E k \in 1..Len(log) : log[k].r = "error" /\ log[k].op # "keywords"
    /\ upserts >= 1

\* C17: from an empty store, at every moment of any sequence of runs one
\* after the other (run to their end, killed or aborted, with collaborator
\* failures and with the folder changed between runs), no two points of the
\* store have the same file_name and chunk_number in their payloads.
C17_KeyUniqueness ==
    \A i, j \in DOMAIN points :
        i # j => <<points[i].payload.file_name, points[i].payload.chunk_number>>
                 # <<points[j].payload.file_name, points[j].payload.chunk_number>>

\* a later run has written a point under the identifier of a point that an
\* earlier run had stored for another chunk
C17_Witness ==
    /\ runs >= 2
    /\ \E w \in written :
          /\ w[1] \in DOMAIN points_at_start
          /\ points_at_start[w[1]].payload # w[2].payload
          /\ <<points_at_start[w[1]].payload.file_name,
               points_at_start[w[1]].payload.chunk_number>> \notin WrittenKeys
    /\ Cardinality(DOMAIN points) >= 2

\* the text of chunk n of a file, as the run read it
TextRead(f, n) == FileChunks[folder_at_start[f]][n]

\* C19: when the store holds a point with the chunk's file_name and
\* chunk_number, whatever its content, a duplicate check that answers says
\* the chunk is a duplicate; and the step that finds a duplicate goes on to
\* the next chunk (or file) leaving the collections, every point of the
\* store (identifier, vector and payload, with the stored content) and the
\* identifier counter as they were, and writing nothing.
C19_SkipChangesNothing ==
    [][(CallMade /\ LastCall.op = "check") =>
          /\ LastCall.f = file_path /\ LastCall.n = idx
          /\ (IdsOf(points, file_path, idx) # {} /\ LastCall.r # "error")
                => LastCall.r = "true"
          /\ LastCall.r = "true" =>
                /\ IdsOf(points, file_path, idx) # {}
                /\ points' = points /\ collections' = collections
                /\ point_id' = point_id
                /\ upserts' = upserts /\ written' = written
                /\ skips' = skips + 1
                /\ pc' \in {"check", "files"}]_vars

\* a chunk was skipped whose text is not the content stored under its key
C19_Witness ==
    \E k \in 1..Len(log) :
        /\ IsCall(k, "check", {"true"})
        /\ \E i \in IdsOf(points, log[k].f, log[k].n) :
              points[i].payload.content # TextRead(log[k].f, log[k].n)

\* the store has exactly one point for every chunk of the folder's files,
\* and no other point
StoreComplete ==
    /\ \A key \in KeysOf(folder) : Cardinality(IdsOf(points, key[1], key[2])) = 1
    /\ Cardinality(DOMAIN points) = Cardinality(KeysOf(folder))

\* C18: when the function is run again and again over an unchanged folder,
\* after earlier runs that may have been killed or have met failures, then
\* from some moment on the store has exactly one point for every chunk of
\* the folder and no run changes it or makes an upsert.
C18_Convergence ==
    /\ <>[]StoreComplete
    /\ <>[][points' = points /\ upserts' = 0]_vars

=============================================================================
